---------------------------- MODULE Spec2Model ----------------------------
(***************************************************************************)
(* Model of app.py: the conversion of a CSS linear-gradient string into a  *)
(* GIMP gradient (.ggr) text.                                              *)
(*                                                                         *)
(* Representation.  A Python str is a sequence of symbols.  A symbol is a  *)
(* single character (" ", "\n", ",", ")", "#", "0", "f", "x") or a word    *)
(* that is never split by the program ("to", "right", "left", "top", the   *)
(* literal prefix "linear-gradient(", the literal line "GIMP Gradient",    *)
(* the literal "Name: ", and the text str() gives for one number).         *)
(* A float is the exact fraction <<n, d>> in lowest terms that Python's    *)
(* true division rounds to the nearest double: two quotients computed from *)
(* equal operands are the same double, and quotients i/n < (i+1)/n stay    *)
(* distinct doubles for every n below 2^52.  The last-bit rounding of the  *)
(* double itself is not represented.                                       *)
(***************************************************************************)
EXTENDS Integers, Sequences, FiniteSets, TLC

(***************************************************************************)
(* Bounds of the explored inputs.                                          *)
(***************************************************************************)
MaxColors == 3

(***************************************************************************)
(* Symbols.                                                                *)
(***************************************************************************)
LG == "linear-gradient("

Whitespace == {" ", "\n"}

HexDigits == {"0", "f"}

HexVal(c) == IF c = "f" THEN 15 ELSE 0

(***************************************************************************)
(* Python str primitives used by the program.                              *)
(***************************************************************************)
Min(a, b) == IF a < b THEN a ELSE b

\* s[a:b] with 0-based a <= b, clamped at the end of s
Slice(s, a, b) == SubSeq(s, a + 1, Min(b, Len(s)))

RECURSIVE LStripWS(_)
LStripWS(s) ==
    IF s # <<>> /\ Head(s) \in Whitespace THEN LStripWS(Tail(s)) ELSE s

RECURSIVE RStripWS(_)
RStripWS(s) ==
    IF s # <<>> /\ s[Len(s)] \in Whitespace
    THEN RStripWS(SubSeq(s, 1, Len(s) - 1))
    ELSE s

\* str.strip()
Strip(s) == RStripWS(LStripWS(s))

\* str.lstrip('#'): every leading '#' goes
RECURSIVE LStripHash(_)
LStripHash(s) ==
    IF s # <<>> /\ Head(s) = "#" THEN LStripHash(Tail(s)) ELSE s

\* str.split(sep): the pieces between the separators, at least one piece
RECURSIVE Split(_, _)
Split(s, sep) ==
    IF \E k \in 1..Len(s) : s[k] = sep
    THEN LET k == CHOOSE j \in 1..Len(s) :
                      s[j] = sep /\ \A m \in 1..(j - 1) : s[m] # sep
         IN  <<SubSeq(s, 1, k - 1)>> \o Split(SubSeq(s, k + 1, Len(s)), sep)
    ELSE <<s>>

\* sep.join(parts)
RECURSIVE Join(_, _)
Join(parts, sep) ==
    IF parts = <<>> THEN <<>>
    ELSE IF Len(parts) = 1 THEN parts[1]
    ELSE parts[1] \o <<sep>> \o Join(Tail(parts), sep)

\* sub in s
Contains(s, sub) ==
    \E k \in 0..(Len(s) - Len(sub)) : SubSeq(s, k + 1, k + Len(sub)) = sub

(***************************************************************************)
(* re.match(r'linear-gradient\(([^,]+),\s*(.+)\)', s).                     *)
(* The match is anchored at the start only.  [^,]+ runs to the first comma *)
(* and must not be empty; \s* is greedy and gives whitespace back one      *)
(* symbol at a time; .+ is greedy, does not cross a line break, and gives  *)
(* back until a ")" follows it.                                            *)
(***************************************************************************)
FirstComma(s) ==
    IF \E k \in 1..Len(s) : s[k] = ","
    THEN CHOOSE k \in 1..Len(s) : s[k] = "," /\ \A m \in 1..(k - 1) : s[m] # ","
    ELSE 0

\* the positions q of a ")" that .+ started at p can stop before
ParenAfter(s, p) ==
    { q \in (p + 1)..Len(s) : s[q] = ")" /\ \A k \in p..(q - 1) : s[k] # "\n" }

\* the positions p where \s* (started after the comma at c) can stop
SpaceRun(s, c) ==
    { p \in (c + 1)..(Len(s) + 1) : \A k \in (c + 1)..(p - 1) : s[k] \in Whitespace }

Max(S) == CHOOSE m \in S : \A k \in S : k <= m

NoMatch == [ok |-> FALSE, direction |-> <<>>, colors_str |-> <<>>]

ReMatch(s) ==
    IF s = <<>> \/ s[1] # LG THEN NoMatch
    ELSE LET c == FirstComma(s)
             starts == { p \in SpaceRun(s, c) : ParenAfter(s, p) # {} }
         IN  IF c < 3 \/ starts = {} THEN NoMatch
             ELSE LET p == Max(starts)
                      q == Max(ParenAfter(s, p))
                  IN  [ok |-> TRUE,
                       direction |-> SubSeq(s, 2, c - 1),
                       colors_str |-> SubSeq(s, p, q - 1)]

ToRight == <<"to", " ", "right">>

\* line 16 with == in place of in
DirectionIsExact(direction) == direction = ToRight

\* line 16: 'to right' in direction
DirectionOk(direction) == Contains(direction, ToRight)

\* lines 19-20: split on commas, strip each piece
SplitColors(colors_str) ==
    LET pieces == Split(colors_str, ",")
    IN  [k \in 1..Len(pieces) |-> Strip(pieces[k])]

(***************************************************************************)
(* int(s, 16) on a slice of at most two symbols: surrounding whitespace is *)
(* ignored, what remains must be one or two hexadecimal digits.  (A sign,  *)
(* an underscore or a "0x" prefix needs symbols the model does not have,   *)
(* or more than two of them.)                                              *)
(***************************************************************************)
IntOk(s) ==
    LET t == Strip(s)
    IN  t # <<>> /\ \A k \in 1..Len(t) : t[k] \in HexDigits

IntVal(s) ==
    LET t == Strip(s)
    IN  IF Len(t) = 1 THEN HexVal(t[1]) ELSE 16 * HexVal(t[1]) + HexVal(t[2])

RECURSIVE GCD(_, _)
GCD(a, b) == IF b = 0 THEN a ELSE GCD(b, a % b)

\* the float a / b, b > 0, a >= 0
Div(a, b) == LET g == GCD(a, b) IN <<a \div g, b \div g>>

\* the float (x + y) / 2
HalfSum(x, y) == Div(x[1] * y[2] + y[1] * x[2], 2 * x[2] * y[2])

ChannelStarts == <<0, 2, 4>>

\* lines 29-30: ok is FALSE where int() raises ValueError
HexToRgb(hex_color) ==
    LET h == LStripHash(hex_color)
        part(k) == Slice(h, ChannelStarts[k], ChannelStarts[k] + 2)
    IN  IF \A k \in 1..3 : IntOk(part(k))
        THEN [ok |-> TRUE, rgb |-> [k \in 1..3 |-> Div(IntVal(part(k)), 255)]]
        ELSE [ok |-> FALSE, rgb |-> <<>>]

(***************************************************************************)
(* create_gimp_gradient: one segment, and the text of the whole gradient.  *)
(***************************************************************************)
\* line 36
NumSegments(cs) == Len(cs) - 1

\* line 41 with colors[i] in place of colors[i+1]
RightIndexSame(i) == i

\* lines 40-41: the tokens converted in iteration i (0-based, as in the code)
LeftIndex(i) == i

RightIndex(i) == i + 1

\* line 43 with len(colors) in place of num_segments
RightEndpointOverLen(i, n) == Div(i + 1, n + 1)

\* lines 42-43
LeftEndpoint(i, n) == Div(i, n)

RightEndpoint(i, n) == Div(i + 1, n)

One == <<1, 1>>

\* lines 42-54: the 15 values of a segment; 1..11 are floats, 12..15 ints
Segment(i, n, lc, rc) ==
    LET l == LeftEndpoint(i, n)
        r == RightEndpoint(i, n)
    IN  <<l, HalfSum(l, r), r,
          lc[1], lc[2], lc[3], One,
          rc[1], rc[2], rc[3], One,
          0, 0, 0, 0>>

\* str(x) of a float: one symbol, different for different floats
StrFloat(x) == ToString(x[1]) \o "/" \o ToString(x[2])

\* str(k) of an int
StrInt(k) == ToString(k)

\* line 64: " ".join(map(str, segment))
SegmentLine(seg) ==
    Join([k \in 1..Len(seg) |->
             <<IF k <= 11 THEN StrFloat(seg[k]) ELSE StrInt(seg[k])>>], " ")

\* lines 57-66: the header, one line per segment, joined by line breaks
GradientText(name, n, segs) ==
    Join(<< <<"GIMP Gradient">>, <<"Name: ">> \o name, <<StrInt(n)>> >>
         \o [k \in 1..Len(segs) |-> SegmentLine(segs[k])], "\n")

(***************************************************************************)
(* The errors the program raises.                                          *)
(***************************************************************************)
NoError == "none"

FormatError == "ValueError: Invalid CSS gradient format"

UnsupportedDirectionError == "ValueError: Unsupported gradient direction"

InvalidColorError == "ValueError: invalid literal for int() with base 16"

IOError == "OSError"

(***************************************************************************)
(* The command lines explored: the gradient string is                      *)
(* head direction "," stop "," ... "," stop tail.                          *)
(***************************************************************************)
Red == <<" ", "#", "f", "f", "0", "0", "0", "0">>

Blue == <<" ", "#", "0", "0", "0", "0", "f", "f">>

Bare == <<"0", "f", "0", "f", "0", "f">>

Short3 == <<" ", "#", "f", "0", "0">>

Short5 == <<" ", "#", "f", "f", "0", "0", "0">>

Long7 == <<" ", "#", "f", "f", "0", "0", "0", "0", "0">>

TwoHash == <<"#", "#", "0", "0", "f", "f", "0", "0">>

NonHex == <<" ", "#", "x", "0", "0", "0", "0", "0">>

Stops == {Red, Blue, Bare, Short3, Short5, Long7, TwoHash, NonHex}

FewStops == {Red, NonHex}

Directions ==
    { ToRight,
      <<"to", " ", "left">>,
      <<"to", " ", "right", " ", "top">>,
      <<"right", " ", "to">> }

Heads == { <<LG>>, <<>>, <<" ", LG>> }

Tails == { <<")">>, <<>>, <<")", "x">>, <<")", " ", "x", ")">>, <<"\n", ")">> }

Names == { <<"a">>, <<"a", " ", "b">>, <<"a", "\n", "b">> }

SeqsUpTo(S, n) == UNION { [1..k -> S] : k \in 0..n }

Inputs ==
    { [head |-> <<LG>>, dir |-> d, stops |-> st, tail |-> <<")">>] :
          d \in Directions, st \in SeqsUpTo(Stops, MaxColors) }
    \cup
    { [head |-> h, dir |-> d, stops |-> st, tail |-> t] :
          h \in Heads, d \in {ToRight, <<>>, <<"to", " ", "left">>},
          st \in SeqsUpTo(FewStops, 2), t \in Tails }

Compose(g) == g.head \o Join(<<g.dir>> \o g.stops, ",") \o g.tail

(***************************************************************************)
(* State.  given is the way the gradient string was composed; it is never  *)
(* read by the program.  converted lists the token indices handed to       *)
(* hex_to_rgb so far, in call order.                                       *)
(***************************************************************************)
VARIABLES given, css_gradient, gradient_name, pc, direction, colors_str,
          colors, num_segments, i, left_color, right_color, segments,
          gradient_content, file, printed, err, converted

vars == <<given, css_gradient, gradient_name, pc, direction, colors_str,
          colors, num_segments, i, left_color, right_color, segments,
          gradient_content, file, printed, err, converted>>

args == <<given, css_gradient, gradient_name>>

parsed == <<direction, colors_str, colors>>

building == <<num_segments, i, left_color, right_color, segments, converted>>

output == <<gradient_content, file, printed>>

NoFile == [exists |-> FALSE, content |-> <<>>]

Init ==
    /\ given \in Inputs
    /\ css_gradient = Compose(given)
    /\ gradient_name \in Names
    /\ pc = "match"
    /\ direction = <<>>
    /\ colors_str = <<>>
    /\ colors = <<>>
    /\ num_segments = 0
    /\ i = 0
    /\ left_color = <<>>
    /\ right_color = <<>>
    /\ segments = <<>>
    /\ gradient_content = <<>>
    /\ file = NoFile
    /\ printed = FALSE
    /\ err = NoError
    /\ converted = <<>>

\* the error is recorded and main goes on to the write
RaiseAndGoOn(kind) == pc' = "write" /\ err' = kind

\* an exception leaves main: nothing after the raising call runs
Raise(kind) == pc' = "failed" /\ err' = kind

\* line 39: the for statement
LoopTest(k, n) == IF k < n THEN "left" ELSE "serialize"

\* lines 10-13
Match ==
    /\ pc = "match"
    /\ LET m == ReMatch(css_gradient)
       IN  IF m.ok
           THEN /\ direction' = m.direction
                /\ colors_str' = m.colors_str
                /\ pc' = "direction"
                /\ err' = err
           ELSE /\ Raise(FormatError)
                /\ UNCHANGED <<direction, colors_str>>
    /\ UNCHANGED <<args, colors, building, output>>

\* lines 16-17
Direction ==
    /\ pc = "direction"
    /\ IF DirectionOk(direction)
       THEN pc' = "split" /\ err' = err
       ELSE Raise(UnsupportedDirectionError)
    /\ UNCHANGED <<args, parsed, building, output>>

\* lines 19-22
SplitStep ==
    /\ pc = "split"
    /\ colors' = SplitColors(colors_str)
    /\ pc' = "create"
    /\ UNCHANGED <<args, direction, colors_str, building, output, err>>

\* lines 36-39
Create ==
    /\ pc = "create"
    /\ num_segments' = NumSegments(colors)
    /\ segments' = <<>>
    /\ i' = 0
    /\ pc' = LoopTest(0, NumSegments(colors))
    /\ UNCHANGED <<args, parsed, left_color, right_color, converted, output, err>>

\* line 40
ConvertLeft ==
    /\ pc = "left"
    /\ converted' = Append(converted, LeftIndex(i))
    /\ LET c == HexToRgb(colors[LeftIndex(i) + 1])
       IN  IF c.ok
           THEN left_color' = c.rgb /\ pc' = "right" /\ err' = err
           ELSE Raise(InvalidColorError) /\ UNCHANGED left_color
    /\ UNCHANGED <<args, parsed, num_segments, i, right_color, segments, output>>

\* line 41
ConvertRight ==
    /\ pc = "right"
    /\ converted' = Append(converted, RightIndex(i))
    /\ LET c == HexToRgb(colors[RightIndex(i) + 1])
       IN  IF c.ok
           THEN right_color' = c.rgb /\ pc' = "append" /\ err' = err
           ELSE Raise(InvalidColorError) /\ UNCHANGED right_color
    /\ UNCHANGED <<args, parsed, num_segments, i, left_color, segments, output>>

\* lines 42-55, and the next turn of the for statement
AppendSegment ==
    /\ pc = "append"
    /\ segments' = Append(segments, Segment(i, num_segments, left_color, right_color))
    /\ i' = i + 1
    /\ pc' = LoopTest(i + 1, num_segments)
    /\ UNCHANGED <<args, parsed, num_segments, left_color, right_color,
                   converted, output, err>>

\* lines 57-66
Serialize ==
    /\ pc = "serialize"
    /\ gradient_content' = GradientText(gradient_name, num_segments, segments)
    /\ pc' = "write"
    /\ UNCHANGED <<args, parsed, building, file, printed, err>>

\* lines 72-73, line 90
WriteOk ==
    /\ pc = "write"
    /\ file' = [exists |-> TRUE, content |-> gradient_content]
    /\ pc' = "print"
    /\ UNCHANGED <<args, parsed, building, gradient_content, printed, err>>

\* lines 72-73: open() fails (nothing is created), or write() fails after
\* open() has created or truncated the file
WriteFail ==
    /\ pc = "write"
    /\ \E opened \in BOOLEAN :
          file' = IF opened THEN [exists |-> TRUE, content |-> <<>>] ELSE file
    /\ Raise(IOError)
    /\ UNCHANGED <<args, parsed, building, gradient_content, printed>>

\* line 92
PrintSaved ==
    /\ pc = "print"
    /\ printed' = TRUE
    /\ pc' = "done"
    /\ UNCHANGED <<args, parsed, building, gradient_content, file, err>>

Next ==
    \/ Match
    \/ Direction
    \/ SplitStep
    \/ Create
    \/ ConvertLeft
    \/ ConvertRight
    \/ AppendSegment
    \/ Serialize
    \/ WriteOk
    \/ WriteFail
    \/ PrintSaved

Spec == Init /\ [][Next]_vars

(***************************************************************************)
(* Vocabulary of the properties.                                           *)
(***************************************************************************)
Terminal == pc \in {"done", "failed"}

\* parse_css_gradient has returned
Parsed == pc \notin {"match", "direction", "split"} /\ err \notin {FormatError, UnsupportedDirectionError}

\* create_gimp_gradient has left its loop without an error
Built == Parsed /\ pc \notin {"create", "left", "right", "append"} /\ err # InvalidColorError

\* a color token as the specification defines it: one optional leading "#",
\* then exactly six hexadecimal digits
WellFormed(tok) ==
    LET h == IF tok # <<>> /\ tok[1] = "#" THEN Tail(tok) ELSE tok
    IN  Len(h) = 6 /\ \A k \in 1..6 : h[k] \in HexDigits

\* the gradient string as a whole is linear-gradient(<direction>, <color>, ...)
WholeForm(g) ==
    g.head = <<LG>> /\ g.tail = <<")">> /\ g.dir # <<>> /\ g.stops # <<>>

\* the lines of a text, and the fields of a line
Lines(text) == Split(text, "\n")

Fields(line) == Split(line, " ")

Less(x, y) == x[1] * y[2] < y[1] * x[2]

\* 0-based indices of the tokens hex_to_rgb rejects
Rejected == { k \in 0..(Len(colors) - 1) : ~HexToRgb(colors[k + 1]).ok }

\* 0-based indices of the tokens that are not well-formed
Malformed == { k \in 0..(Len(colors) - 1) : ~WellFormed(colors[k + 1]) }

Lowest(S) == CHOOSE m \in S : \A k \in S : m <= k

TooFewColorsError == "TooFewColorsError"

(***************************************************************************)
(* C1: for an accepted input with N >= 2 well-formed color tokens the      *)
(* returned text declares N-1 segments: its third line is the count N-1    *)
(* and exactly N-1 lines follow it.                                        *)
(***************************************************************************)
C1_DeclaresNMinus1 ==
    (/\ gradient_content # <<>>
     /\ Len(colors) >= 2
     /\ \A k \in 1..Len(colors) : WellFormed(colors[k]))
    => LET L == Lines(gradient_content)
       IN  /\ Len(L) = 3 + (Len(colors) - 1)
           /\ L[3] = <<StrInt(Len(colors) - 1)>>

\* C1 where the gradient name holds no line break
C1_PlainName ==
    (\A k \in 1..Len(gradient_name) : gradient_name[k] # "\n") => C1_DeclaresNMinus1

(***************************************************************************)
(* C2: the segments of N >= 2 colors partition [0,1] from left to right:   *)
(* the first starts at 0, the last ends at 1, each has left < right, each  *)
(* ends where the next starts, and each has width 1/(N-1).                 *)
(***************************************************************************)
C2_Partition ==
    (Built /\ Len(colors) >= 2)
    => LET n == Len(colors) - 1
       IN  /\ Len(segments) = n
           /\ segments[1][1] = <<0, 1>>
           /\ segments[n][3] = <<1, 1>>
           /\ \A k \in 1..n :
                 /\ Less(segments[k][1], segments[k][3])
                 /\ LET l == segments[k][1]
                        r == segments[k][3]
                    IN  (r[1] * l[2] - l[1] * r[2]) * n = l[2] * r[2]
           /\ \A k \in 1..(n - 1) : segments[k][3] = segments[k + 1][1]

C2_Witness == Built /\ Len(segments) >= 2 /\ segments[1][3] = <<1, 2>>

(***************************************************************************)
(* C3: with fewer than two color tokens the pipeline ends in a             *)
(* TooFewColors error and produces no gradient content.                    *)
(***************************************************************************)
C3_TooFewColors ==
    (Parsed /\ pc # "create" /\ Len(colors) < 2)
    => /\ gradient_content = <<>>
       /\ ~file.exists
       /\ Terminal => err = TooFewColorsError

(***************************************************************************)
(* C4: hex_to_rgb raises the invalid-color error on exactly the tokens     *)
(* that are not well-formed, and returns a triple only for well-formed     *)
(* ones.                                                                   *)
(***************************************************************************)
C4_RejectsMalformed ==
    \A j \in 1..Len(converted) :
        LET raised == j = Len(converted) /\ err = InvalidColorError
        IN  raised <=> ~WellFormed(colors[converted[j] + 1])

(***************************************************************************)
(* C5: after an error of parsing, conversion or segment building no file   *)
(* has been written and nothing is printed; a file is written only once    *)
(* both functions have returned, and the message is printed only after     *)
(* the write of the returned text.                                         *)
(***************************************************************************)
C5_NoWriteOnError ==
    /\ err \in {FormatError, UnsupportedDirectionError, InvalidColorError}
          => ~file.exists /\ ~printed /\ pc = "failed"
    /\ file.exists => Built /\ gradient_content # <<>>
    /\ printed => file = [exists |-> TRUE, content |-> gradient_content]

C5_Witness == err = InvalidColorError /\ segments # <<>> /\ ~file.exists

(***************************************************************************)
(* C6: once the shape is accepted, the direction error is raised exactly   *)
(* when the text before the first comma lacks "to right".                  *)
(***************************************************************************)
C6_DirectionCheck ==
    /\ (pc # "match" /\ WholeForm(given)) => err # FormatError
    /\ (pc \notin {"match", "direction"} /\ err # FormatError)
       => /\ direction = given.dir
          /\ err = UnsupportedDirectionError <=> ~Contains(given.dir, ToRight)
          /\ Contains(given.dir, ToRight) => colors_str # <<>>

C6_Witness ==
    err = UnsupportedDirectionError /\ given.dir = <<"right", " ", "to">>
        /\ given.stops # <<>>

(***************************************************************************)
(* C7: every string that is not linear-gradient(<direction>, <color>, ...) *)
(* as a whole gets the format error and yields no colors.                  *)
(***************************************************************************)
C7_FormatError ==
    (pc # "match" /\ ~WholeForm(given)) => err = FormatError /\ colors = <<>>

(***************************************************************************)
(* C8: segment i runs from the color of token i to the color of token      *)
(* i+1, tokens in the order of the string, both with alpha 1.0; so the     *)
(* right color of a segment is the left color of the next.                 *)
(***************************************************************************)
C8_SegmentColors ==
    Built
    => /\ Len(segments) = Len(colors) - 1
       /\ WholeForm(given)
             => colors = [k \in 1..Len(given.stops) |-> Strip(given.stops[k])]
       /\ \A k \in 1..Len(segments) :
             /\ SubSeq(segments[k], 4, 6) = HexToRgb(colors[k]).rgb
             /\ SubSeq(segments[k], 8, 10) = HexToRgb(colors[k + 1]).rgb
             /\ segments[k][7] = One
             /\ segments[k][11] = One
       /\ \A k \in 1..(Len(segments) - 1) :
             SubSeq(segments[k], 8, 11) = SubSeq(segments[k + 1], 4, 7)

C8_Witness ==
    Built /\ Len(segments) >= 2
          /\ SubSeq(segments[1], 4, 6) # SubSeq(segments[1], 8, 10)
          /\ SubSeq(segments[2], 4, 6) # SubSeq(segments[2], 8, 10)

(***************************************************************************)
(* C9: the returned text is the line "GIMP Gradient", the line             *)
(* "Name: <name>", the line of the segment count, and then one line per    *)
(* segment of 15 space-separated fields in the order of the segment's      *)
(* values, the last four being 0.                                          *)
(***************************************************************************)
C9_TextLayout ==
    gradient_content # <<>>
    => LET L == Lines(gradient_content)
       IN  /\ Len(L) = 3 + Len(segments)
           /\ L[1] = <<"GIMP Gradient">>
           /\ L[2] = <<"Name: ">> \o gradient_name
           /\ L[3] = <<StrInt(Len(segments))>>
           /\ \A k \in 1..Len(segments) :
                 LET F == Fields(L[3 + k])
                 IN  /\ Len(F) = 15
                     /\ \A j \in 1..11 : F[j] = <<StrFloat(segments[k][j])>>
                     /\ \A j \in 12..15 : F[j] = <<"0">>

\* C9 where the gradient name holds no line break
C9_PlainName ==
    (\A k \in 1..Len(gradient_name) : gradient_name[k] # "\n") => C9_TextLayout

(***************************************************************************)
(* C10: the checks run in a fixed order and the first failing one is the   *)
(* error reported: shape, then direction, then the tokens in the order     *)
(* 0, 1, 1, 2, 2, 3, ...; a bad direction wins over a malformed color, and *)
(* of several malformed tokens the one of lowest index is reported.        *)
(***************************************************************************)
C10_FirstFailureReported ==
    /\ \A j \in 1..Len(converted) : converted[j] = j \div 2
    /\ converted # <<>> => Parsed /\ Contains(given.dir, ToRight)
    /\ err = UnsupportedDirectionError => direction # <<>> /\ converted = <<>>
    /\ err = FormatError => direction = <<>> /\ converted = <<>>
    /\ (Terminal /\ WholeForm(given) /\ ~Contains(given.dir, ToRight))
          => err = UnsupportedDirectionError
    /\ (Terminal /\ Parsed /\ Len(colors) >= 2 /\ Malformed # {})
          => /\ err = InvalidColorError
             /\ converted[Len(converted)] = Lowest(Malformed)

\* C10 where a malformed token is one that hex_to_rgb rejects
C10_CheckOrder ==
    /\ \A j \in 1..Len(converted) : converted[j] = j \div 2
    /\ converted # <<>> => Parsed /\ Contains(given.dir, ToRight)
    /\ err = UnsupportedDirectionError => direction # <<>> /\ converted = <<>>
    /\ err = FormatError => direction = <<>> /\ converted = <<>>
    /\ (Terminal /\ WholeForm(given) /\ ~Contains(given.dir, ToRight))
          => err = UnsupportedDirectionError
    /\ err = InvalidColorError
          => Rejected # {} /\ converted[Len(converted)] = Lowest(Rejected)
    /\ (Terminal /\ Parsed /\ Len(colors) >= 2 /\ Rejected # {})
          => err = InvalidColorError

\* C10_CheckOrder's case: two rejected tokens, the first of them not token 0
C10_CheckOrderReached ==
    /\ err = InvalidColorError
    /\ Cardinality(Rejected) >= 2
    /\ Lowest(Rejected) >= 1
    /\ converted[Len(converted)] = Lowest(Rejected)
=============================================================================
